---- MODULE Spec2Model ----
(***************************************************************************)
(* A model of todo-rs (src/src/lib.rs): a command-line todo list kept in   *)
(* the flat file todo.txt.  Text is modelled as a sequence of one-char     *)
(* strings, so that splitting, joining, integer parsing and integer        *)
(* formatting are computed character by character as the library does.     *)
(*                                                                         *)
(* The file system is taken to be reliable: the only I/O failure modelled  *)
(* is reading a file that does not exist.                                  *)
(***************************************************************************)
EXTENDS Integers, Sequences, FiniteSets, TLC

VARIABLES
    exists,     \* whether todo.txt exists
    text,       \* the text of todo.txt (<<>> while it does not exist)
    exists0,    \* exists, before the last invocation of run
    text0,      \* text, before the last invocation of run
    cfg,        \* the Config the last invocation of run was given
    result,     \* how the last invocation ended ("none" before the first)
    out,        \* the lines the last invocation printed to standard output
    parsed,     \* the Vec<Todo> parse_todos returned in the last invocation
    idx,        \* the value of add's local `index` at its writeln! (0: none)
    nops,       \* invocations of run so far
    nadds,      \* invocations of run that dispatched to add so far
    args,       \* the argument list given to Config::new
    config,     \* what Config::new returned for args
    pc,         \* concurrent adds: each process's position in add
    content,    \* concurrent adds: each process's `content` argument
    buf,        \* concurrent adds: each process's `file_contents`
    index,      \* concurrent adds: each process's local `index`
    offset      \* concurrent adds: each process's file offset

vars == <<exists, text, exists0, text0, cfg, result, out, parsed, idx, nops,
          nadds, args, config, pc, content, buf, index, offset>>

----------------------------------------------------------------------------
(* Bounds of the model. *)

\* Longest initial store text drawn from Alphabet.
MaxLen == 5
\* Longest argument list given to Config::new.
MaxArgs == 4
\* Most invocations in a run that starts from an absent or empty store.
MaxOps == 10
\* Longest initial store text of the two concurrent adds.
MaxConcLen == 4

----------------------------------------------------------------------------
(* Characters and text. *)

Digits == {"0", "1", "2", "3", "4", "5", "6", "7", "8", "9"}

DigitVal(c) ==
    CASE c = "0" -> 0 [] c = "1" -> 1 [] c = "2" -> 2 [] c = "3" -> 3
      [] c = "4" -> 4 [] c = "5" -> 5 [] c = "6" -> 6 [] c = "7" -> 7
      [] c = "8" -> 8 [] c = "9" -> 9

DigitChar(d) == CHOOSE c \in Digits : DigitVal(c) = d

\* The characters initial store texts are drawn from.
Alphabet == {"0", "1", "2", "-", " ", "a", "\n"}

\* All texts over Alphabet of length at most n.
TextsUpTo(n) == UNION {[1..k -> Alphabet] : k \in 0..n}

\* Whether character c occurs in s.
Has(s, c) == \E i \in 1..Len(s) : s[i] = c

\* The first position of c in s (s must hold c).
Find(s, c) == CHOOSE i \in 1..Len(s) : s[i] = c /\ \A j \in 1..(i - 1) : s[j] # c

\* s from position i on.
From(s, i) == SubSeq(s, i, Len(s))

----------------------------------------------------------------------------
(* i32: parsing (str::parse::<i32>) and formatting (Display). *)

I32Max == 2147483647
I32Min == -I32Max - 1

ParseErr == [ok |-> FALSE, val |-> 0]

\* The digit loop of from_str_radix: a checked multiply by 10, then a checked
\* add of the digit (a checked subtract after a "-"); either overflow is Err.
RECURSIVE from_str_digits(_, _, _)
from_str_digits(ds, acc, sign) ==
    IF ds = <<>> THEN [ok |-> TRUE, val |-> acc]
    ELSE IF Head(ds) \notin Digits THEN ParseErr
    ELSE IF acc > I32Max \div 10 \/ acc < -(I32Max \div 10) THEN ParseErr
    ELSE LET m == acc * 10
             d == DigitVal(Head(ds))
         IN  IF sign = 1
             THEN IF m > I32Max - d THEN ParseErr
                  ELSE from_str_digits(Tail(ds), m + d, sign)
             ELSE IF m < I32Min + d THEN ParseErr
                  ELSE from_str_digits(Tail(ds), m - d, sign)

\* words[0].parse::<i32>(): an optional sign, then one or more digits.
parse_i32(tok) ==
    IF tok = <<>> THEN ParseErr
    ELSE IF Head(tok) \in {"+", "-"}
         THEN IF Len(tok) = 1 THEN ParseErr
              ELSE from_str_digits(Tail(tok), 0, IF Head(tok) = "-" THEN -1 ELSE 1)
    ELSE from_str_digits(tok, 0, 1)

RECURSIVE fmt_nat(_)
fmt_nat(n) ==
    IF n < 10 THEN <<DigitChar(n)>>
    ELSE Append(fmt_nat(n \div 10), DigitChar(n % 10))

\* "{}" of an i32: a "-" and the digits of the absolute value, which for
\* i32::MIN is no i32 (its last digit and the rest are taken apart first).
fmt_i32(n) ==
    IF n >= 0 THEN fmt_nat(n)
    ELSE LET r == n % 10
             q == -(n \div 10) - (IF r # 0 THEN 1 ELSE 0)
         IN  <<"-">> \o (IF q = 0 THEN <<>> ELSE fmt_nat(q))
                    \o <<DigitChar((10 - r) % 10)>>

----------------------------------------------------------------------------
(* str::split(" "), [&str]::join(" ") and str::lines(). *)

RECURSIVE split(_, _)
split(s, sep) ==
    IF ~Has(s, sep) THEN <<s>>
    ELSE LET p == Find(s, sep)
         IN  <<SubSeq(s, 1, p - 1)>> \o split(From(s, p + 1), sep)

RECURSIVE join(_, _)
join(words, sep) ==
    IF words = <<>> THEN <<>>
    ELSE IF Len(words) = 1 THEN words[1]
    ELSE words[1] \o sep \o join(Tail(words), sep)

\* A variant of lines: the text split at every line feed, which gives an empty
\* last line to a text that ends with one.
lines_split(s) == split(s, "\n")

\* One line of lines(): a piece of split_inclusive('\n') without its "\n" and
\* without a "\r" right before that "\n"; a piece with no "\n" is kept whole.
strip_line(piece) ==
    IF piece = <<>> \/ piece[Len(piece)] # "\n" THEN piece
    ELSE LET l == SubSeq(piece, 1, Len(piece) - 1)
         IN  IF l # <<>> /\ l[Len(l)] = "\r" THEN SubSeq(l, 1, Len(l) - 1) ELSE l

RECURSIVE lines(_)
lines(s) ==
    IF s = <<>> THEN <<>>
    ELSE IF ~Has(s, "\n") THEN <<strip_line(s)>>
    ELSE LET p == Find(s, "\n")
         IN  <<strip_line(SubSeq(s, 1, p))>> \o lines(From(s, p + 1))

----------------------------------------------------------------------------
(* Config. *)

None == [some |-> FALSE, val |-> <<>>]
Some(s) == [some |-> TRUE, val |-> s]

\* A variant of Config::new: the noun is made when no argument follows the
\* verb too.
Config_new_ge2(a) ==
    IF Len(a) < 2
    THEN [err |-> "NotEnoughArguments", verb |-> <<>>, noun |-> None]
    ELSE [err |-> "", verb |-> a[2], noun |-> Some(join(From(a, 3), <<" ">>))]

\* Config::new: Err(NotEnoughArguments), or Ok(Config { verb, noun }).
Config_new(a) ==
    IF Len(a) < 2
    THEN [err |-> "NotEnoughArguments", verb |-> <<>>, noun |-> None]
    ELSE IF Len(a) > 2
         THEN [err |-> "", verb |-> a[2], noun |-> Some(join(From(a, 3), <<" ">>))]
    ELSE [err |-> "", verb |-> a[2], noun |-> None]

----------------------------------------------------------------------------
(* Todo. *)

\* Todo::new: Err of the integer parse, or Ok(Todo { index, content }).
Todo_new(line) ==
    LET words == split(line, " ")
        i     == parse_i32(words[1])
    IN  IF ~i.ok THEN [ok |-> FALSE, index |-> 0, content |-> <<>>]
        ELSE [ok |-> TRUE, index |-> i.val, content |-> join(Tail(words), <<" ">>)]

\* impl Ord for Todo: by index alone.
cmp(a, b) ==
    IF a.index < b.index THEN "Less"
    ELSE IF a.index > b.index THEN "Greater" ELSE "Equal"

\* parse_todos: Todo::new(l).unwrap() for each line. The unwrap panics on the
\* first Err, so the function never returns Err.
parse_todos(s) ==
    LET ts == [i \in 1..Len(lines(s)) |-> Todo_new(lines(s)[i])]
    IN  IF \E i \in 1..Len(ts) : ~ts[i].ok
        THEN [panic |-> TRUE, todos |-> <<>>]
        ELSE [panic |-> FALSE,
              todos |-> [i \in 1..Len(ts) |->
                            [index |-> ts[i].index, content |-> ts[i].content]]]

\* A variant of insert: t goes before the elements that equal it.
RECURSIVE insert_before_equal(_, _)
insert_before_equal(sorted, t) ==
    IF sorted = <<>> THEN <<t>>
    ELSE IF cmp(Head(sorted), t) # "Less" THEN <<t>> \o sorted
    ELSE <<Head(sorted)>> \o insert_before_equal(Tail(sorted), t)

\* Insert t after every element that is not Greater than it.
RECURSIVE insert(_, _)
insert(sorted, t) ==
    IF sorted = <<>> THEN <<t>>
    ELSE IF cmp(Head(sorted), t) = "Greater" THEN <<t>> \o sorted
    ELSE <<Head(sorted)>> \o insert(Tail(sorted), t)

\* A variant of sort: the todos are left in file order.
sort_skipped(todos) == todos

\* todos.sort(): a stable sort by cmp.
RECURSIVE sort(_)
sort(todos) ==
    IF todos = <<>> THEN <<>>
    ELSE insert(sort(SubSeq(todos, 1, Len(todos) - 1)), todos[Len(todos)])

\* A variant of the loop of add: no break, an entry that does not carry the
\* candidate is passed over.
RECURSIVE next_index_no_break(_, _)
next_index_no_break(todos, i) ==
    IF todos = <<>> THEN i
    ELSE IF Head(todos).index # i THEN next_index_no_break(Tail(todos), i)
    ELSE next_index_no_break(Tail(todos), i + 1)

\* The loop of add: the candidate starts at 1 (the call next_index(todos, 1))
\* and advances while the next sorted entry carries it.
RECURSIVE next_index(_, _)
next_index(todos, i) ==
    IF todos = <<>> THEN i
    ELSE IF Head(todos).index # i THEN i
    ELSE next_index(Tail(todos), i + 1)

----------------------------------------------------------------------------
(* The store file and the operations on it. *)

\* A variant of write, for a file opened without append(true): the data goes
\* to the handle's offset, over what another handle has written there.
write_at_offset(t, off, data) ==
    [text   |-> SubSeq(t, 1, off) \o data \o SubSeq(t, off + Len(data) + 1, Len(t)),
     offset |-> off + Len(data)]

\* A write on a file opened with append(true): the data goes to the end of
\* the file whatever the handle's offset is, and the offset ends there.
write(t, off, data) == [text |-> t \o data, offset |-> Len(t) + Len(data)]

\* What one invocation does: how it ended, the file after it, what it printed,
\* the todos parse_todos returned and the index add computed (0: none).
Outcome(r, e, t, o, p, i, op) ==
    [result |-> r, exists |-> e, text |-> t, out |-> o, parsed |-> p,
     idx |-> i, op |-> op]

\* println!("{}. {}", todo.index, todo.content)
print_line(todo) == fmt_i32(todo.index) \o <<".", " ">> \o todo.content

\* format!("{} {}", index, content)
entry_text(i, c) == fmt_i32(i) \o <<" ">> \o c

\* list(): read_to_string fails on an absent file; parse_todos may panic.
list(e, t) ==
    IF ~e THEN Outcome("IoError", e, t, <<>>, <<>>, 0, "list")
    ELSE LET p == parse_todos(t)
         IN  IF p.panic THEN Outcome("Panic", e, t, <<>>, <<>>, 0, "list")
             ELSE LET todos == sort(p.todos)
                  IN  Outcome("Ok", e, t,
                              [k \in 1..Len(todos) |-> print_line(todos[k])],
                              p.todos, 0, "list")

\* A variant of add: a write! in place of the writeln!, no line terminator.
add_no_newline(e, t, c) ==
    LET p == parse_todos(t)
    IN  IF p.panic THEN Outcome("Panic", TRUE, t, <<>>, <<>>, 0, "add")
        ELSE LET i == next_index(sort(p.todos), 1)
                 w == write(t, Len(t), entry_text(i, c))
             IN  Outcome("Ok", TRUE, w.text, <<>>, p.todos, i, "add")

\* add(content): the open creates an absent file; parse_todos may panic; the
\* writeln! writes the entry text and then the line terminator.
add(e, t, c) ==
    LET p == parse_todos(t)
    IN  IF p.panic THEN Outcome("Panic", TRUE, t, <<>>, <<>>, 0, "add")
        ELSE LET i  == next_index(sort(p.todos), 1)
                 w1 == write(t, Len(t), entry_text(i, c))
                 w2 == write(w1.text, w1.offset, <<"\n">>)
             IN  Outcome("Ok", TRUE, w2.text, <<>>, p.todos, i, "add")

VerbList == <<"l", "i", "s", "t">>
VerbAdd == <<"a", "d", "d">>
VerbDelete == <<"d", "e", "l", "e", "t", "e">>

\* A variant of run: the noun is required before the verb is looked at.
run_noun_first(c, e, t) ==
    IF ~c.noun.some THEN Outcome("NotEnoughArguments", e, t, <<>>, <<>>, 0, "none")
    ELSE IF c.verb = VerbList THEN list(e, t)
    ELSE IF c.verb = VerbAdd THEN add(e, t, c.noun.val)
    ELSE Outcome("InvalidCommand", e, t, <<>>, <<>>, 0, "none")

\* run(config): the match on config.verb.
run(c, e, t) ==
    IF c.verb = VerbList THEN list(e, t)
    ELSE IF c.verb = VerbAdd
         THEN IF c.noun.some THEN add(e, t, c.noun.val)
              ELSE Outcome("NotEnoughArguments", e, t, <<>>, <<>>, 0, "none")
    ELSE Outcome("InvalidCommand", e, t, <<>>, <<>>, 0, "none")

----------------------------------------------------------------------------
(* Inputs. *)

TestParseText ==
    <<"2", " ", "S", "o", "m", "e", "t", "h", "i", "n", "g", " ", "e", "l",
    "s", "e", "\n", "1", " ", "S", "o", "m", "e", "t", "h", "i", "n", "g",
    "\n", "4", " ", "A", "n", "o", "t", "h", "e", "r", " ", "t", "h", "i",
    "n", "g", "\n">>

BadTokenText ==
    <<"a", "b", "c", " ", "h", "e", "l", "l", "o", "\n">>

OverflowText ==
    <<"2", "1", "4", "7", "4", "8", "3", "6", "4", "8", " ", "a", "\n">>

ExtremeText ==
    <<"2", "1", "4", "7", "4", "8", "3", "6", "4", "7", " ", "a", "\n", "-",
    "2", "1", "4", "7", "4", "8", "3", "6", "4", "8", " ", "b", "\n">>

OneTwoText ==
    <<"1", " ", "x", "\n", "2", " ", "y", "\n">>

OneTwoThreeText ==
    <<"1", "\n", "2", "\n", "3", "\n">>

TwoThreeFourText ==
    <<"2", "\n", "3", "\n", "4", "\n">>

OneThreeFourText ==
    <<"1", "\n", "3", "\n", "4", "\n">>

DuplicateText ==
    <<"1", " ", "a", "\n", "2", " ", "b", "\n", "1", " ", "c", "\n">>

CrLfText ==
    <<"+", "1", " ", "a", "\r", "\n", "0", "2", " ", "b", " ", " ", "c",
    "\r", "\n">>

BuyMilk ==
    <<"B", "u", "y", " ", "m", "i", "l", "k">>

\* Store texts beyond Alphabet and MaxLen: those of the tests and of the
\* specification's examples, the extremes of i32, CR LF line ends.
ExampleTexts ==
    {TestParseText, BadTokenText, OverflowText, ExtremeText, OneTwoText,
     OneTwoThreeText, TwoThreeFourText, OneThreeFourText, DuplicateText,
     CrLfText}

\* The initial store: absent, or any text.
Stores ==
    {[exists |-> FALSE, text |-> <<>>]}
      \cup {[exists |-> TRUE, text |-> t] : t \in TextsUpTo(MaxLen) \cup ExampleTexts}

\* The Configs run is given: list (with and without a noun), add with each
\* noun and with none, another verb, an empty verb.
Nouns == {Some(<<>>), Some(<<"a">>), Some(<<"a", "\n", "1">>), Some(BuyMilk)}

Configs ==
    {[verb |-> VerbAdd, noun |-> n] : n \in Nouns \cup {None}}
      \cup {[verb |-> VerbList, noun |-> n] : n \in {None, Some(<<"a">>)}}
      \cup {[verb |-> VerbDelete, noun |-> n] : n \in {None, Some(<<"a">>)}}
      \cup {[verb |-> <<>>, noun |-> None]}

\* The contents added to a store that starts absent or empty.
SeqContents == {<<>>, <<"0", " ", "b">>}

SeqConfigs ==
    {[verb |-> VerbList, noun |-> None]}
      \cup {[verb |-> VerbAdd, noun |-> Some(c)] : c \in SeqContents}

----------------------------------------------------------------------------
(* One invocation at a time. *)

NoConfig == [verb |-> <<>>, noun |-> None]
NoConfigResult == [err |-> "none", verb |-> <<>>, noun |-> None]

\* The variables of the argument list and of the concurrent adds, at rest.
IdleArgs == args = <<>> /\ config = NoConfigResult
IdleProcs ==
    /\ pc = <<"idle", "idle">>
    /\ content = <<<<>>, <<>>>>
    /\ buf = <<<<>>, <<>>>>
    /\ index = <<0, 0>>
    /\ offset = <<0, 0>>

InitRun(stores) ==
    /\ \E s \in stores : exists = s.exists /\ text = s.text
    /\ exists0 = exists
    /\ text0 = text
    /\ cfg = NoConfig
    /\ result = "none"
    /\ out = <<>>
    /\ parsed = <<>>
    /\ idx = 0
    /\ nops = 0
    /\ nadds = 0
    /\ IdleArgs
    /\ IdleProcs

\* One invocation of run(c), start to end.
Run(c) ==
    LET o == run(c, exists, text)
    IN  /\ exists' = o.exists
        /\ text' = o.text
        /\ exists0' = exists
        /\ text0' = text
        /\ cfg' = c
        /\ result' = o.result
        /\ out' = o.out
        /\ parsed' = o.parsed
        /\ idx' = o.idx
        /\ nops' = nops + 1
        /\ nadds' = nadds + (IF o.op = "add" THEN 1 ELSE 0)
        /\ UNCHANGED <<args, config, pc, content, buf, index, offset>>

\* Any store, one invocation.
Init == InitRun(Stores)
Next == \E c \in Configs : nops < 1 /\ Run(c)
Spec == Init /\ [][Next]_vars

\* A store that starts absent or empty, then invocations of list and add.
InitSeq == InitRun({s \in Stores : s.text = <<>>})
NextSeq == \E c \in SeqConfigs : nops < MaxOps /\ Run(c)
SpecSeq == InitSeq /\ [][NextSeq]_vars

----------------------------------------------------------------------------
(* Config::new on an argument list. *)

ArgOne == <<"a", "r", "g", "O", "n", "e">>
ArgTwo == <<"a", "r", "g", "T", "w", "o">>
ArgThree == <<"a", "r", "g", "T", "h", "r", "e", "e">>
ArgFour == <<"a", "r", "g", "F", "o", "u", "r">>

\* The arguments of tests::config.
TestArgs == <<ArgOne, ArgTwo, ArgThree, ArgFour>>

\* prog add Buy milk
BuyMilkArgs == <<<<"p", "r", "o", "g">>, VerbAdd, <<"B", "u", "y">>,
                 <<"m", "i", "l", "k">>>>

\* The arguments lists are made of: verbs, a word, a word with a space in it,
\* an empty word.
Words == {VerbList, VerbAdd, <<"a">>, <<"b", " ", "c">>, <<>>}

ArgLists ==
    UNION {[1..k -> Words] : k \in 0..MaxArgs} \cup {TestArgs, BuyMilkArgs}

InitConfig ==
    /\ args \in ArgLists
    /\ config = NoConfigResult
    /\ exists = FALSE
    /\ text = <<>>
    /\ exists0 = FALSE
    /\ text0 = <<>>
    /\ cfg = NoConfig
    /\ result = "none"
    /\ out = <<>>
    /\ parsed = <<>>
    /\ idx = 0
    /\ nops = 0
    /\ nadds = 0
    /\ IdleProcs

\* Config::new(&args)
ConfigNew ==
    /\ config.err = "none"
    /\ config' = Config_new(args)
    /\ UNCHANGED <<exists, text, exists0, text0, cfg, result, out, parsed,
                   idx, nops, nadds, args, pc, content, buf, index, offset>>

NextConfig == ConfigNew
SpecConfig == InitConfig /\ [][NextConfig]_vars

----------------------------------------------------------------------------
(* Two invocations of add at the same time, each a process of its own. The  *)
(* steps are the system calls of add: the open, the reads of                *)
(* read_to_string (the file only grows, so what they return is the file's   *)
(* text at the last of them), and the writes of writeln!. A File is not     *)
(* buffered, and write_fmt passes each piece of "{}\n" to write_all as the  *)
(* formatter produces it: the entry text, then the line terminator.         *)

Procs == {1, 2}

\* The contents of the concurrent adds.
ConcContents == {<<>>, <<"a">>, <<"a", "\n", "1">>}

ConcStores ==
    {[exists |-> FALSE, text |-> <<>>]}
      \cup {[exists |-> TRUE, text |-> t] : t \in TextsUpTo(MaxConcLen) \cup {OneTwoText}}

InitConc ==
    /\ \E s \in ConcStores : exists = s.exists /\ text = s.text
    /\ exists0 = exists
    /\ text0 = text
    /\ content \in [Procs -> ConcContents]
    /\ pc = [p \in Procs |-> "open"]
    /\ buf = [p \in Procs |-> <<>>]
    /\ index = [p \in Procs |-> 0]
    /\ offset = [p \in Procs |-> 0]
    /\ cfg = NoConfig
    /\ result = "none"
    /\ out = <<>>
    /\ parsed = <<>>
    /\ idx = 0
    /\ nops = 0
    /\ nadds = 0
    /\ IdleArgs

\* OpenOptions ... .create(true).append(true).open("todo.txt")
Open(p) ==
    /\ pc[p] = "open"
    /\ exists' = TRUE
    /\ pc' = [pc EXCEPT ![p] = "read"]
    /\ UNCHANGED <<text, exists0, text0, cfg, result, out, parsed, idx, nops,
                   nadds, args, config, content, buf, index, offset>>

\* file.read_to_string, then parse_todos, the sort and the loop, which touch
\* nothing but the process's own memory. The process ends in a panic when a
\* line does not parse.
Read(p) ==
    /\ pc[p] = "read"
    /\ buf' = [buf EXCEPT ![p] = text]
    /\ offset' = [offset EXCEPT ![p] = Len(text)]
    /\ LET r == parse_todos(text)
       IN  IF r.panic
           THEN /\ pc' = [pc EXCEPT ![p] = "panicked"]
                /\ index' = index
           ELSE /\ pc' = [pc EXCEPT ![p] = "write"]
                /\ index' = [index EXCEPT ![p] = next_index(sort(r.todos), 1)]
    /\ UNCHANGED <<exists, text, exists0, text0, cfg, result, out, parsed,
                   idx, nops, nadds, args, config, content>>

\* writeln!, its first write: the entry text.
WriteEntry(p) ==
    /\ pc[p] = "write"
    /\ LET w == write(text, offset[p], entry_text(index[p], content[p]))
       IN  /\ text' = w.text
           /\ offset' = [offset EXCEPT ![p] = w.offset]
    /\ pc' = [pc EXCEPT ![p] = "newline"]
    /\ UNCHANGED <<exists, exists0, text0, cfg, result, out, parsed, idx,
                   nops, nadds, args, config, content, buf, index>>

\* writeln!, its second write: the line terminator.
WriteNewline(p) ==
    /\ pc[p] = "newline"
    /\ LET w == write(text, offset[p], <<"\n">>)
       IN  /\ text' = w.text
           /\ offset' = [offset EXCEPT ![p] = w.offset]
    /\ pc' = [pc EXCEPT ![p] = "done"]
    /\ UNCHANGED <<exists, exists0, text0, cfg, result, out, parsed, idx,
                   nops, nadds, args, config, content, buf, index>>

NextConc ==
    \E p \in Procs : Open(p) \/ Read(p) \/ WriteEntry(p) \/ WriteNewline(p)
SpecConc == InitConc /\ [][NextConc]_vars

----------------------------------------------------------------------------
(* The store format as the specification words it, stated without the      *)
(* operators above: lines by the positions of the line feeds, the leading   *)
(* token and the content by the position of the first space, integers by    *)
(* their digits.                                                            *)

NewlinePositions(t) == {i \in 1..Len(t) : t[i] = "\n"}

\* The position of the k-th line feed of t.
NthNewline(t, k) ==
    CHOOSE p \in NewlinePositions(t) :
        Cardinality({q \in NewlinePositions(t) : q <= p}) = k

\* The number of lines of t: one per line feed, and one more for text after
\* the last line feed.
LineCount(t) ==
    Cardinality(NewlinePositions(t))
      + (IF t # <<>> /\ t[Len(t)] # "\n" THEN 1 ELSE 0)

\* The k-th line of t, without its terminator (a line feed, or a carriage
\* return and a line feed).
LineOf(t, k) ==
    LET first == IF k = 1 THEN 1 ELSE NthNewline(t, k - 1) + 1
        ended == k <= Cardinality(NewlinePositions(t))
        last  == IF ended THEN NthNewline(t, k) - 1 ELSE Len(t)
    IN  IF ended /\ last >= first /\ t[last] = "\r"
        THEN SubSeq(t, first, last - 1)
        ELSE SubSeq(t, first, last)

SpacePositions(l) == {i \in 1..Len(l) : l[i] = " "}

FirstSpace(l) == CHOOSE p \in SpacePositions(l) : \A q \in SpacePositions(l) : p <= q

\* The text of a line before its first space, and after it.
LeadingToken(l) ==
    IF SpacePositions(l) = {} THEN l ELSE SubSeq(l, 1, FirstSpace(l) - 1)

AfterFirstSpace(l) ==
    IF SpacePositions(l) = {} THEN <<>> ELSE SubSeq(l, FirstSpace(l) + 1, Len(l))

\* The digits of a token, without a sign and without leading zeros.
Unsigned(tok) == IF tok # <<>> /\ tok[1] \in {"+", "-"} THEN Tail(tok) ELSE tok

Significant(ds) ==
    LET nz == {i \in 1..Len(ds) : ds[i] # "0"}
    IN  IF nz = {} THEN <<"0">>
        ELSE SubSeq(ds, CHOOSE i \in nz : \A j \in nz : i <= j, Len(ds))

\* Whether the number with digits a is at most the one with digits b (neither
\* has leading zeros).
DigitsLeq(a, b) ==
    \/ Len(a) < Len(b)
    \/ /\ Len(a) = Len(b)
       /\ \/ a = b
          \/ \E i \in 1..Len(a) :
                /\ DigitVal(a[i]) < DigitVal(b[i])
                /\ \A j \in 1..(i - 1) : a[j] = b[j]

I32MaxDigits == <<"2", "1", "4", "7", "4", "8", "3", "6", "4", "7">>
I32MinDigits == <<"2", "1", "4", "7", "4", "8", "3", "6", "4", "8">>

\* A base-10 signed 32-bit integer: an optional sign, one or more digits, a
\* value from -2^31 to 2^31 - 1.
ValidIntToken(tok) ==
    LET ds == Unsigned(tok)
    IN  /\ ds # <<>>
        /\ \A i \in 1..Len(ds) : ds[i] \in Digits
        /\ DigitsLeq(Significant(ds),
                     IF tok[1] = "-" THEN I32MinDigits ELSE I32MaxDigits)

\* Whether the valid token tok is a numeral of the integer v.
Denotes(tok, v) ==
    LET ds == Significant(Unsigned(tok))
    IN  fmt_i32(v) = IF tok[1] = "-" /\ ds # <<"0">> THEN <<"-">> \o ds ELSE ds

\* Whether every line of t begins with a valid integer token.
Parseable(t) == \A k \in 1..LineCount(t) : ValidIntToken(LeadingToken(LineOf(t, k)))

\* What the last invocation dispatched to.
RanList == result # "none" /\ cfg.verb = VerbList
RanAdd == result # "none" /\ cfg.verb = VerbAdd /\ cfg.noun.some

----------------------------------------------------------------------------
(* Claims about one invocation on any store (Spec). *)

\* C7: for every file text in which each line begins with a valid integer
\* token, parse_todos yields exactly one entry per line in file order (a final
\* line terminator adds no entry); each entry's index is the integer value of
\* the line's text before its first space, and its content is exactly the
\* text after that first space, or empty when the line has no space. Lines
\* end at a line feed, or at a carriage return followed by a line feed.
C7_ParseOnePerLine ==
    (RanList \/ RanAdd) /\ (exists0 \/ RanAdd) /\ Parseable(text0)
    => /\ result = "Ok"
       /\ Len(parsed) = LineCount(text0)
       /\ \A k \in 1..Len(parsed) :
             /\ Denotes(LeadingToken(LineOf(text0, k)), parsed[k].index)
             /\ parsed[k].content = AfterFirstSpace(LineOf(text0, k))

SomethingElse ==
    <<"S", "o", "m", "e", "t", "h", "i", "n", "g", " ", "e", "l", "s", "e">>
Something == <<"S", "o", "m", "e", "t", "h", "i", "n", "g">>
AnotherThing ==
    <<"A", "n", "o", "t", "h", "e", "r", " ", "t", "h", "i", "n", "g">>

\* The text of tests::parse, parsed to what that test asserts.
C7_Witness ==
    /\ RanList
    /\ text0 = TestParseText
    /\ parsed = << [index |-> 2, content |-> SomethingElse],
                   [index |-> 1, content |-> Something],
                   [index |-> 4, content |-> AnotherThing] >>

\* The indices of a sequence of todos in ascending order: the i-th is the
\* index v with fewer than i indices below it and at least i up to it.
Indices(todos) == {todos[j].index : j \in 1..Len(todos)}

SortedIndex(todos, i) ==
    CHOOSE v \in Indices(todos) :
        /\ Cardinality({j \in 1..Len(todos) : todos[j].index < v}) < i
        /\ Cardinality({j \in 1..Len(todos) : todos[j].index <= v}) >= i

\* The length of the longest prefix of the sorted entries in which the i-th
\* entry has index i.
RunLength(todos) ==
    CHOOSE k \in 0..Len(todos) :
        /\ \A i \in 1..k : SortedIndex(todos, i) = i
        /\ k < Len(todos) => SortedIndex(todos, k + 1) # k + 1

\* C8: the index add assigns is 1 + the length of the longest prefix of the
\* entries sorted by index in which the i-th entry has index i (entries after
\* the first mismatch are not examined): indices {1,2,3} give 4, no entries
\* give 1, {2,3,4} give 1 and {1,3,4} give 2.
C8_FirstGap ==
    RanAdd /\ result = "Ok"
    => /\ idx = 1 + RunLength(parsed)
       /\ text0 = OneTwoThreeText => idx = 4
       /\ text0 = <<>> => idx = 1
       /\ text0 = TwoThreeFourText => idx = 1
       /\ text0 = OneThreeFourText => idx = 2

\* Duplicates before the gap: sorted 1, 1, 2 stops at the second 1.
C8_Witness ==
    RanAdd /\ result = "Ok" /\ text0 = DuplicateText /\ idx = 2

\* The orders of n entries.
Orders(n) == {f \in [1..n -> 1..n] : \A i, j \in 1..n : f[i] = f[j] => i = j}

\* C4: for every parseable store file, list emits exactly one output line per
\* stored entry, formatted "<index>. <content>", and the emitted sequence is a
\* permutation of the stored entries ordered by index ascending, entries of
\* equal index kept in their file order.
C4_ListSortedStable ==
    RanList /\ exists0 /\ Parseable(text0)
    => /\ result = "Ok"
       /\ Len(out) = LineCount(text0)
       /\ \E f \in Orders(Len(out)) :
             /\ \A i \in 1..Len(out) :
                   out[i] = fmt_i32(parsed[f[i]].index) \o <<".", " ">>
                              \o parsed[f[i]].content
             /\ \A i, j \in 1..Len(out) :
                   i < j => \/ parsed[f[i]].index < parsed[f[j]].index
                            \/ /\ parsed[f[i]].index = parsed[f[j]].index
                               /\ f[i] < f[j]

\* Entries 1 a, 2 b, 1 c are listed as 1. a, 1. c, 2. b.
C4_Witness ==
    /\ RanList
    /\ text0 = DuplicateText
    /\ out = << <<"1", ".", " ", "a">>, <<"1", ".", " ", "c">>,
                <<"2", ".", " ", "b">> >>

\* The lowest unused positive index: the smallest k >= 1 no entry carries.
LowestUnused(todos) ==
    CHOOSE k \in 1..(Len(todos) + 1) :
        /\ k \notin Indices(todos)
        /\ \A m \in 1..(k - 1) : m \in Indices(todos)

\* C1 as claimed: for every store file whose lines all parse, add(content)
\* gives the new entry the lowest unused positive index, duplicate, zero and
\* negative indices in the store included.
C1_LowestUnusedAlways ==
    RanAdd /\ Parseable(text0) => idx = LowestUnused(parsed)

\* Whether the indices are pairwise distinct and all at least 1.
DistinctPositive(todos) ==
    /\ \A j \in 1..Len(todos) : todos[j].index >= 1
    /\ \A i, j \in 1..Len(todos) : todos[i].index = todos[j].index => i = j

\* C1, amended: for every store file whose lines all parse and whose indices
\* are pairwise distinct and all at least 1, the index add(content) assigns,
\* the number at the start of the text it appends, is the lowest unused
\* positive index.
C1_LowestUnusedDistinctPositive ==
    RanAdd /\ Parseable(text0) /\ DistinctPositive(parsed)
    => /\ result = "Ok"
       /\ idx = LowestUnused(parsed)
       /\ text = text0 \o fmt_i32(idx) \o <<" ">> \o cfg.noun.val \o <<"\n">>

\* Indices 2, 1 in file order: the new entry gets 3.
C1_Witness ==
    /\ RanAdd
    /\ text0 = <<"2", "\n", "1", "\n">>
    /\ cfg.noun.val = <<"a">>
    /\ text = <<"2", "\n", "1", "\n", "3", " ", "a", "\n">>

\* C2: every add(content), for any prior store text and any content, either
\* keeps the prior text as a prefix and adds exactly one new line, which
\* parses back as the entry (assigned index, content), or leaves the file's
\* text unchanged: no add merges its text into an existing last line or adds
\* more than one line.
C2_OneLineOrNothing ==
    RanAdd
    => \/ text = text0
       \/ /\ Len(text) > Len(text0)
          /\ SubSeq(text, 1, Len(text0)) = text0
          /\ LineCount(text) = LineCount(text0) + 1
          /\ \A k \in 1..LineCount(text0) : LineOf(text, k) = LineOf(text0, k)
          /\ LET l == LineOf(text, LineCount(text))
             IN  /\ ValidIntToken(LeadingToken(l))
                 /\ Denotes(LeadingToken(l), idx)
                 /\ AfterFirstSpace(l) = cfg.noun.val

\* C3: when a line of the store file has a leading token that is no valid
\* base-10 signed 32-bit integer, list and add end with a parse error that
\* is returned to the caller of run as an error value, like IoError and
\* NotEnoughArguments; list prints no entry and add appends nothing.
C3_ParseErrorReturned ==
    (RanList \/ RanAdd) /\ exists0 /\ ~Parseable(text0)
    => /\ result = "ParseError"
       /\ out = <<>>
       /\ text = text0

\* What of an Outcome the caller and the file system see.
Effect(o) == <<o.result, o.exists, o.text, o.out>>

\* C5: run dispatches on the verb alone: "list" performs list; "add" with a
\* noun performs add(noun); "add" without a noun fails with
\* NotEnoughArguments; every other verb fails with InvalidCommand, and in the
\* two failing cases the store file is neither created nor modified.
C5_Dispatch ==
    result # "none"
    => LET effect == <<result, exists, text, out>>
           same   == exists = exists0 /\ text = text0 /\ out = <<>>
       IN  /\ cfg.verb = VerbList => effect = Effect(list(exists0, text0))
           /\ cfg.verb = VerbAdd /\ cfg.noun.some
                 => effect = Effect(add(exists0, text0, cfg.noun.val))
           /\ cfg.verb = VerbAdd /\ ~cfg.noun.some
                 => result = "NotEnoughArguments" /\ same
           /\ cfg.verb \notin {VerbList, VerbAdd}
                 => result = "InvalidCommand" /\ same

\* add without a noun on an absent store: the error, and still no file.
C5_Witness ==
    /\ cfg.verb = VerbAdd
    /\ ~cfg.noun.some
    /\ result = "NotEnoughArguments"
    /\ ~exists0
    /\ ~exists

----------------------------------------------------------------------------
(* Claims about a store that starts absent or empty (SpecSeq). *)

\* C9: starting from an absent or empty store file, after any sequence of
\* invocations of add (contents without a line terminator) and list, one at a
\* time: every invocation succeeds except a list run while the file is still
\* absent; the file holds exactly n lines, n the number of adds so far, and
\* they carry the indices 1, 2, ..., n in file order; a list never creates or
\* changes the file.
C9_Sequential ==
    /\ result # "none"
          => IF cfg.verb = VerbList /\ ~exists0 THEN result = "IoError"
             ELSE result = "Ok"
    /\ LineCount(text) = nadds
    /\ \A k \in 1..nadds : LeadingToken(LineOf(text, k)) = fmt_i32(k)
    /\ exists <=> (exists0 \/ RanAdd)
    /\ RanList => exists = exists0 /\ text = text0

\* A list after three adds prints three lines and leaves the file as it was.
C9_Witness ==
    /\ RanList
    /\ nadds = 3
    /\ result = "Ok"
    /\ Len(out) = 3
    /\ text = text0
    /\ LineCount(text) = 3

----------------------------------------------------------------------------
(* Claims about Config::new (SpecConfig). *)

\* The arguments from the third to the n-th, each after the first preceded
\* by one space.
RECURSIVE SpaceJoined(_, _)
SpaceJoined(a, n) ==
    IF n = 3 THEN a[3] ELSE SpaceJoined(a, n - 1) \o <<" ">> \o a[n]

ArgThreeArgFour ==
    <<"a", "r", "g", "T", "h", "r", "e", "e", " ", "a", "r", "g", "F", "o",
      "u", "r">>

\* C6: for every argument list args, Config::new fails with
\* NotEnoughArguments iff args has fewer than 2 elements; otherwise verb is
\* args[1] (the second argument), and noun is absent iff args has exactly 2
\* elements, else noun is the arguments from args[2] on joined in order with
\* single spaces.
C6_ConfigNew ==
    config.err # "none"
    => /\ config.err = "NotEnoughArguments" <=> Len(args) < 2
       /\ Len(args) >= 2
             => /\ config.err = ""
                /\ config.verb = args[2]
                /\ ~config.noun.some <=> Len(args) = 2
                /\ Len(args) > 2 => config.noun.val = SpaceJoined(args, Len(args))
       /\ args = TestArgs
             => config.verb = ArgTwo /\ config.noun = Some(ArgThreeArgFour)
       /\ args = BuyMilkArgs
             => config.verb = VerbAdd /\ config.noun = Some(BuyMilk)

\* What tests::config asserts.
C6_Witness ==
    /\ args = TestArgs
    /\ config.err = ""
    /\ config.verb = ArgTwo
    /\ config.noun = Some(ArgThreeArgFour)

----------------------------------------------------------------------------
(* Claims about two concurrent adds (SpecConc). *)

\* The store the two adds started on parses and ends with a line terminator.
ParseableTerminated ==
    exists0 /\ text0 # <<>> /\ text0[Len(text0)] = "\n" /\ Parseable(text0)

NoTerminator(c) == \A i \in 1..Len(c) : c[i] # "\n"

Ended == \A p \in Procs : pc[p] \in {"done", "panicked"}

\* The entry text process p wrote.
Entry(p) == fmt_i32(index[p]) \o <<" ">> \o content[p]

\* Whether line l is the well-formed line of process p: its index, a space,
\* its content.
LineOfProc(l, p) ==
    /\ ValidIntToken(LeadingToken(l))
    /\ Denotes(LeadingToken(l), index[p])
    /\ AfterFirstSpace(l) = content[p]

\* C10 as claimed, for contents without a line terminator: under every
\* interleaving both invocations complete and the file ends with exactly two
\* more well-formed lines than before, one per invocation with that
\* invocation's content; nothing is lost, overwritten or merged.
C10_TwoWellFormedLines ==
    ParseableTerminated /\ (\A p \in Procs : NoTerminator(content[p])) /\ Ended
    => /\ \A p \in Procs : pc[p] = "done"
       /\ LineCount(text) = LineCount(text0) + 2
       /\ SubSeq(text, 1, Len(text0)) = text0
       /\ \E p, q \in Procs :
             /\ p # q
             /\ LineOfProc(LineOf(text, LineCount(text0) + 1), p)
             /\ LineOfProc(LineOf(text, LineCount(text0) + 2), q)

\* What process p appended: its entry text and then a line terminator, or
\* nothing when it panicked.
Appends(p) == IF pc[p] = "done" THEN <<Entry(p), <<"\n">>>> ELSE <<>>

\* The texts that the appends a and b, each in its order, can leave.
RECURSIVE Interleavings(_, _)
Interleavings(a, b) ==
    IF a = <<>> THEN {join(b, <<>>)}
    ELSE IF b = <<>> THEN {join(a, <<>>)}
    ELSE {Head(a) \o t : t \in Interleavings(Tail(a), b)}
           \cup {Head(b) \o t : t \in Interleavings(a, Tail(b))}

\* The index the loop of add gives on the todos of text t.
FirstGap(t) == 1 + RunLength(parse_todos(t).todos)

\* C10, amended: when two adds run concurrently on a parseable store that
\* ends with a line terminator, nothing written is lost or overwritten, but
\* each add appends its entry text and its line terminator in two writes, so
\* the file ends as the prior text followed by an interleaving of the writes
\* of the two. With contents that hold no line terminator both invocations
\* complete and the file gains either two well-formed lines, one per
\* invocation, or one line that holds both entry texts followed by an empty
\* line; one entry carries the first-gap index of the prior store and the
\* other that index again or the first-gap index after the first entry.
C10_AppendsInterleave ==
    ParseableTerminated /\ Ended
    => /\ text \in {text0 \o t : t \in Interleavings(Appends(1), Appends(2))}
       /\ (\A p \in Procs : NoTerminator(content[p]))
             => /\ \A p \in Procs : pc[p] = "done"
                /\ \E p, q \in Procs :
                      /\ p # q
                      /\ text \in {text0 \o Entry(p) \o <<"\n">> \o Entry(q) \o <<"\n">>,
                                   text0 \o Entry(p) \o Entry(q) \o <<"\n", "\n">>}
                      /\ index[p] = FirstGap(text0)
                      /\ index[q] \in {FirstGap(text0),
                                       FirstGap(text0 \o Entry(p) \o <<"\n">>)}

\* Both adds read the store 1 x, 2 y before either wrote, and their writes
\* interleaved: one line 3 a3 a, then an empty line.
C10_Witness ==
    /\ Ended
    /\ text0 = OneTwoText
    /\ content = <<<<"a">>, <<"a">>>>
    /\ text = OneTwoText \o <<"3", " ", "a", "3", " ", "a", "\n", "\n">>

====
